---------------------------- MODULE Spec2Model ----------------------------
(***************************************************************************)
(* A model of the solution / project resolver of slnprojparse/parsing.py.  *)
(*                                                                         *)
(* One run of the model is one call of _parse_solution_file on a solution  *)
(* file: the line loop, the call of _parse_project_file for each forwarded *)
(* line, and the recursion of parse_proj over the ProjectReference graph,  *)
(* kept as an explicit call stack.  SpecEntry puts that call inside the    *)
(* entry point parse_from_argv, which calls it once per solution file that *)
(* discover_solution_set finds.                                            *)
(*                                                                         *)
(* Strings (paths, file names) are sequences of one-character strings, so  *)
(* that lower(), "in", splitext and the pathlib accessors are computed     *)
(* as the code computes them.  A path stands for the absolute path it      *)
(* resolves to: every path of the model is written relative to the folder  *)
(* of the solution file, in resolved form.                                 *)
(***************************************************************************)
EXTENDS Integers, Sequences, FiniteSets, TLC

(***************************************************************************)
(* Strings                                                                 *)
(***************************************************************************)
UpperCase == <<"A","B","C","D","E","F","G","H","I","J","K","L","M",
               "N","O","P","Q","R","S","T","U","V","W","X","Y","Z">>

LowerCase == <<"a","b","c","d","e","f","g","h","i","j","k","l","m",
               "n","o","p","q","r","s","t","u","v","w","x","y","z">>

\* str.lower() on one character
LowerChar(c) ==
    IF \E i \in DOMAIN UpperCase : UpperCase[i] = c
    THEN LowerCase[CHOOSE i \in DOMAIN UpperCase : UpperCase[i] = c]
    ELSE c

\* str.lower()
Lower(s) == [i \in 1..Len(s) |-> LowerChar(s[i])]

\* Python's  sub in s
Contains(sub, s) ==
    \E i \in 0..(Len(s) - Len(sub)) : SubSeq(s, i + 1, i + Len(sub)) = sub

\* str.endswith
EndsWith(s, suf) ==
    /\ Len(suf) <= Len(s)
    /\ SubSeq(s, Len(s) - Len(suf) + 1, Len(s)) = suf

\* str.replace("\\", "/")
ReplaceBackslash(s) == [i \in 1..Len(s) |-> IF s[i] = "\\" THEN "/" ELSE s[i]]

\* str.rfind(c), 1-based; 0 when c does not occur
RFind(s, c) ==
    IF \E i \in 1..Len(s) : s[i] = c
    THEN CHOOSE i \in 1..Len(s) : s[i] = c /\ \A j \in (i + 1)..Len(s) : s[j] # c
    ELSE 0

\* pathlib: PurePath.name
PathName(p) == SubSeq(p, RFind(p, "/") + 1, Len(p))

\* pathlib: PurePath.parent (the solution folder is the empty path)
PathParent(p) == SubSeq(p, 1, RFind(p, "/") - 1)

\* pathlib: PurePath.stem
PathStem(p) ==
    LET n == PathName(p)
        i == RFind(n, ".")
    IN  IF 1 < i /\ i < Len(n) THEN SubSeq(n, 1, i - 1) ELSE n

\* os.path.splitext(name)[1]: the last dot starts the extension unless only
\* dots precede it
SplitExt(name) ==
    LET i == RFind(name, ".")
    IN  IF i > 0 /\ \E j \in 1..(i - 1) : name[j] # "."
        THEN SubSeq(name, i, Len(name))
        ELSE <<>>

\* pathlib: PurePath.suffix
PathSuffix(p) ==
    LET name == PathName(p)
        i == RFind(name, ".")
    IN  IF i > 1 /\ i < Len(name) THEN SubSeq(name, i, Len(name)) ELSE <<>>

\* a file lies (at any depth) beneath a folder: what rglob walks
IsBeneath(f, dir) ==
    IF dir = <<>> THEN TRUE
    ELSE /\ Len(f) > Len(dir) + 1
         /\ SubSeq(f, 1, Len(dir)) = dir
         /\ f[Len(dir) + 1] = "/"

(***************************************************************************)
(* Language detection                                                      *)
(***************************************************************************)
ExtCs     == <<".","c","s">>
ExtFs     == <<".","f","s">>
ExtVb     == <<".","v","b">>
ExtPy     == <<".","p","y">>
ExtJava   == <<".","j","a","v","a">>
ExtJs     == <<".","j","s">>
ExtCsproj == <<".","c","s","p","r","o","j">>
ExtVbproj == <<".","v","b","p","r","o","j">>
ExtSln    == <<".","s","l","n">>

_detect_language(file_name) ==
    LET ext == Lower(SplitExt(file_name))
    IN  CASE ext = ExtCs     -> "CS"
          [] ext = ExtFs     -> "FS"
          [] ext = ExtVb     -> "VB"
          [] ext = ExtPy     -> "PY"
          [] ext = ExtJava   -> "JAVA"
          [] ext = ExtJs     -> "JS"
          [] ext = ExtCsproj -> "CSPROJECT"
          [] ext = ExtVbproj -> "VBPROJECT"
          [] OTHER           -> "EMPTY"

(***************************************************************************)
(* The files of a run.  File names are concrete; the numbers below bound   *)
(* the size of the documents drawn from them.                              *)
(***************************************************************************)
MaxRefs    == 2    \* ProjectReference elements per project file
MaxEdges   == 4    \* ProjectReference elements in a whole reference graph
MaxCompile == 2    \* Compile elements per project file
MaxLines   == 3    \* lines of a solution file
MaxDepth   == 6    \* frames of parse_proj a run may hold at once

\* an element without an Include attribute (or, for Compile, an empty one)
NoInclude == <<>>

PA     == <<"a">> \o ExtCsproj
PB     == <<"b">> \o ExtCsproj
PC     == <<"c">> \o ExtVbproj
PD     == <<"d">> \o ExtCsproj
PGone  == <<"g">> \o ExtCsproj                       \* never on disk
PBad   == <<"x">> \o ExtCsproj                       \* not well-formed XML
PUpper == <<"L",".","V","B","P","R","O","J">>
PUser  == PA \o <<".","u","s","e","r">>
PDocs  == <<"D","o","c","s">>                        \* a solution folder entry
PSub   == <<"w","/","c">> \o ExtVbproj
PSubBs == <<"w","\\","c">> \o ExtVbproj              \* as written in a .sln
PApp   == <<"p","/","a">> \o ExtCsproj

FMain  == <<"p","/","m">> \o ExtCs
FUtil  == <<"p","/","h","/","u">> \o ExtVb
FOut   == <<"q","/","z">> \o ExtCs
FFs    == <<"p","/","n">> \o ExtFs

\* the source files a disk may hold, in the order a directory walk meets them
DiskOrder == <<FMain, FUtil, FOut, FFs>>

SdkMarker == "Microsoft.NET.Sdk"
SdkAbsent == ""                  \* the root element has no Sdk attribute
SdkOther  == "Microsoft.NET.Sdk.Web"

\* sequences over S of length at most n
SeqsUpTo(S, n) == UNION {[1..k -> S] : k \in 0..n}

\* a parsed project document: what parse_proj reads of the XML
Doc(sdk, compile, refs) ==
    [wellformed |-> TRUE, sdk |-> sdk, compile |-> compile, refs |-> refs]

EmptyDoc == Doc(SdkAbsent, <<>>, <<>>)

BadDoc == [wellformed |-> FALSE, sdk |-> SdkAbsent, compile |-> <<>>, refs |-> <<>>]

GraphProjects == {PA, PB, PC, PD}

\* the reference lists of one project file when `budget` references are left
RefLists(budget) ==
    SeqsUpTo(GraphProjects, IF budget < MaxRefs THEN budget ELSE MaxRefs)

\* a project line of a solution file (the groups _PROJECT_LINE_RE captures)
\* or a line the expression does not match
ProjectLine(path) == [matches |-> TRUE, proj_path |-> path]
OtherLine == [matches |-> FALSE, proj_path |-> <<>>]

\* a solution file: openable or not, its lines, and the line whose read
\* raises UnicodeDecodeError (0: none)
SlnFile(openable, lines, failAt) ==
    [openable |-> openable, lines |-> lines, failAt |-> failAt]

\* the solution files a disk may hold, all in the solution folder
SlnS == <<"s">> \o ExtSln
SlnT == <<"t">> \o ExtSln
SlnPaths == {SlnS, SlnT}

\* the contents a solution file on disk may have
EntrySlnFiles ==
    {SlnFile(TRUE, <<>>, 0),
     SlnFile(TRUE, <<ProjectLine(PA)>>, 0),
     SlnFile(TRUE, <<ProjectLine(PGone), ProjectLine(PA)>>, 0),
     SlnFile(FALSE, <<>>, 0)}

\* before a solution file is opened
NoSln == SlnFile(FALSE, <<>>, 0)

\* the argument lists of parse_from_argv: none, the solution folder, a
\* solution file (in one piece or in two), a folder without solution files,
\* a file that is no solution file
CurDir == <<".">>
PSubDir == <<"w">>
ArgvChoices ==
    {<<>>, <<CurDir>>, <<SlnS>>, <<SlnT>>, << <<"s">>, ExtSln >>, <<PSubDir>>, <<PA>>}

VARIABLES
    files,      \* the paths that are files on disk
    xml,        \* project path -> its document
    sln,        \* the solution file
    logLevel,   \* level of the root logger (SLN_LOG_LEVEL)
    pc,         \* where _parse_solution_file is
    lineNo,     \* the line the loop reads next
    solution,   \* Solution.projects
    caught,     \* the exception the except clause caught, or "none"
    raised,     \* the exception that left _parse_solution_file, or "none"
    stack,      \* the frames of parse_proj, innermost last
    visited,    \* the visited set shared by one top-level parse_proj
    skipLog,    \* the ProjectReferences the cycle guard skipped
    scanned,    \* the folders _get_sdk_files walked
    xmlParsed,  \* the paths handed to ET.parse
    forwardLog, \* the matched lines and whether each was forwarded
    raisedIn,   \* the parse_proj frame that raised, or NoFrame
    argv,       \* the arguments of parse_from_argv
    slnDisk,    \* path of a solution file on disk -> the solution file
    epc,        \* where parse_from_argv is
    pending,    \* the solution files rglob has still to yield
    solution_set,   \* the SolutionSet of discover_solution_set
    returned    \* the value parse_from_argv returned, or "none"

vars == <<files, xml, sln, logLevel, pc, lineNo, solution, caught, raised,
          stack, visited, skipLog, scanned, xmlParsed, forwardLog, raisedIn,
          argv, slnDisk, epc, pending, solution_set, returned>>

inputs == <<files, xml, sln, logLevel>>

entry == <<argv, slnDisk, epc, pending, solution_set, returned>>

\* no SolutionSet has been built
NoSolutionSet == [start_path |-> <<>>, solutions |-> <<>>]

\* _parse_solution_file is called on its own, outside parse_from_argv
Direct ==
    /\ argv = <<>>
    /\ slnDisk = <<>>
    /\ epc = "direct"
    /\ pending = <<>>
    /\ solution_set = NoSolutionSet
    /\ returned = "none"

NoFrame == [path |-> <<>>, depth |-> 0]

\* the state _parse_solution_file starts in
Start ==
    /\ pc = "open"
    /\ lineNo = 0
    /\ solution = <<>>
    /\ caught = "none"
    /\ raised = "none"
    /\ stack = <<>>
    /\ visited = {}
    /\ skipLog = {}
    /\ scanned = {}
    /\ xmlParsed = {}
    /\ forwardLog = <<>>
    /\ raisedIn = NoFrame

Range(seq) == {seq[i] : i \in DOMAIN seq}

\* the projects a resolution that starts from S reads
RECURSIVE Reach(_, _)
Reach(g, S) ==
    LET n == S \cup UNION {Range(g[p]) : p \in S}
    IN  IF n = S THEN S ELSE Reach(g, n)

\* the files no resolution from PA reads are left empty
ReadFromTop(g) == \A p \in GraphProjects \ Reach(g, {PA}) : g[p] = <<>>

\* what may be missing from the disk of a graph: nothing; or PD (of the
\* projects PA may reference, which are alike up to their names) where some
\* project references it; or PA itself
MissingChoices(g) ==
    {{}} \cup (IF g[PD] = <<>> /\ PD \in Reach(g, {PA}) THEN {{PD}} ELSE {})
         \cup (IF \A p \in GraphProjects : g[p] = <<>> THEN {{PA}} ELSE {})

\* reference graphs: a solution of one line naming PA, over every graph of
\* GraphProjects with at most MaxEdges references
InitGraph ==
    /\ \E ra \in RefLists(MaxEdges) :
       \E rb \in RefLists(MaxEdges - Len(ra)) :
       \E rc \in RefLists(MaxEdges - Len(ra) - Len(rb)) :
       \E rd \in RefLists(MaxEdges - Len(ra) - Len(rb) - Len(rc)) :
          LET g == (PA :> ra) @@ (PB :> rb) @@ (PC :> rc) @@ (PD :> rd)
          IN  /\ ReadFromTop(g)
              /\ \E missing \in MissingChoices(g) :
                    /\ files = GraphProjects \ missing
                    /\ xml = [p \in GraphProjects |-> Doc(SdkAbsent, <<>>, g[p])]
    /\ sln = SlnFile(TRUE, <<ProjectLine(PA)>>, 0)
    /\ logLevel = "INFO"
    /\ Start
    /\ Direct

\* the Include values a Compile element of PApp may carry
CompileIncludes == {NoInclude, FMain, FUtil, FOut, FFs, PB}

\* the ProjectReference lists PApp may carry
AppRefLists == {<<>>, <<PB, PB>>, <<NoInclude, PGone>>, <<PBad>>}

\* compile items and the SDK fallback: a solution of one line naming PApp,
\* whose Compile items, Sdk attribute and references vary, over every disk
InitFiles ==
    /\ \E compile \in SeqsUpTo(CompileIncludes, MaxCompile) :
       \E disk \in SUBSET {DiskOrder[i] : i \in DOMAIN DiskOrder} :
       \E sdk \in {SdkAbsent, SdkMarker, SdkOther} :
       \E refs \in AppRefLists :
          /\ files = {PApp, PB, PBad} \cup disk
          /\ xml = (PApp :> Doc(sdk, compile, refs)) @@ (PB :> EmptyDoc)
                      @@ (PBad :> BadDoc)
    /\ sln = SlnFile(TRUE, <<ProjectLine(PApp)>>, 0)
    /\ logLevel = "INFO"
    /\ Start
    /\ Direct

\* the lines a solution file is drawn from
SlnLines ==
    {OtherLine} \cup
    {ProjectLine(p) : p \in {PA, PUpper, PUser, PDocs, PSubBs, PGone}}

\* solution files: every file of at most MaxLines lines, unopenable or
\* undecodable at any line or readable to its end, under both log levels
InitSln ==
    /\ \E lines \in SeqsUpTo(SlnLines, MaxLines) :
       \E openable \in BOOLEAN :
       \E failAt \in (IF openable THEN 0..(Len(lines) + 1) ELSE {0}) :
          sln = SlnFile(openable, lines, failAt)
    /\ logLevel \in {"DEBUG", "INFO"}
    /\ files = {PA, PB, PUpper, PUser, PSub}
    /\ xml = (PA :> Doc(SdkAbsent, <<>>, <<PB, PB>>)) @@
             [p \in {PB, PUpper, PUser, PSub} |-> EmptyDoc]
    /\ Start
    /\ Direct

(***************************************************************************)
(* parse_proj                                                              *)
(***************************************************************************)
CodeFile(src_path) ==
    [file_name |-> PathName(src_path),
     full_path |-> src_path,
     language  |-> _detect_language(PathName(src_path))]

\* str(parent) + "/" + name; the solution folder is the empty prefix
JoinPath(dir, name) == IF dir = <<>> THEN name ELSE dir \o <<"/">> \o name

Project(path, code_files, child_projects) ==
    [full_path           |-> JoinPath(PathParent(path), PathName(path)),
     project_folder_path |-> PathParent(path),
     name                |-> PathStem(path),
     code_files          |-> code_files,
     child_projects      |-> child_projects]

\* a Compile loop that fails on a path missing from disk
CompileItemMissingRaises(inc, acc) ==
    IF acc.error # "none" \/ inc = NoInclude THEN acc
    ELSE IF inc \notin files THEN [acc EXCEPT !.error = "FileNotFoundError"]
    ELSE IF _detect_language(PathName(inc)) \in {"CS", "VB"}
    THEN [acc EXCEPT !.code_files = Append(@, CodeFile(inc))]
    ELSE IF _detect_language(PathName(inc)) \in {"CSPROJECT", "VBPROJECT"}
    THEN [acc EXCEPT !.error = "TypeError"]
    ELSE acc

\* one pass of the Compile loop: acc is [error, code_files] so far
CompileItem(inc, acc) ==
    IF acc.error # "none" \/ inc = NoInclude \/ inc \notin files THEN acc
    ELSE LET _language == _detect_language(PathName(inc))
         IN  IF _language \in {"CS", "VB"}
             THEN [acc EXCEPT !.code_files = Append(@, CodeFile(inc))]
             ELSE IF _language \in {"CSPROJECT", "VBPROJECT"}
             \* Project(file_name=..., full_path=...): the dataclass takes no
             \* file_name and needs three more fields
             THEN [acc EXCEPT !.error = "TypeError"]
             ELSE acc

RECURSIVE CompileLoop(_, _)
CompileLoop(items, acc) ==
    IF items = <<>> THEN acc
    ELSE CompileLoop(Tail(items), CompileItem(Head(items), acc))

\* a parse_proj without the is_file check: ET.parse is what fails
EnterOutcomeParseFirst(path) ==
    IF path \notin files
    THEN [error |-> "FileNotFoundError", parsed |-> TRUE, code_files |-> <<>>]
    ELSE IF ~xml[path].wellformed
    THEN [error |-> "ParseError", parsed |-> TRUE, code_files |-> <<>>]
    ELSE LET c == CompileLoop(xml[path].compile,
                              [error |-> "none", code_files |-> <<>>])
         IN  [error |-> c.error, parsed |-> TRUE, code_files |-> c.code_files]

\* the outcome of parse_proj up to the ProjectReference loop
EnterOutcome(path) ==
    IF path \notin files
    THEN [error |-> "FileNotFoundError", parsed |-> FALSE, code_files |-> <<>>]
    ELSE IF ~xml[path].wellformed
    THEN [error |-> "ParseError", parsed |-> TRUE, code_files |-> <<>>]
    ELSE LET c == CompileLoop(xml[path].compile,
                              [error |-> "none", code_files |-> <<>>])
         IN  [error |-> c.error, parsed |-> TRUE, code_files |-> c.code_files]

\* Path.rglob("*" + ext) beneath dir
RGlob(dir, ext) ==
    LET Hit(f) == f \in files /\ IsBeneath(f, dir) /\ EndsWith(PathName(f), ext)
    IN  SelectSeq(DiskOrder, Hit)

_get_sdk_files(dir) ==
    LET codeList == RGlob(dir, ExtCs) \o RGlob(dir, ExtVb)
    IN  [i \in 1..Len(codeList) |-> CodeFile(codeList[i])]

\* a fallback that asks only for the presence of an Sdk attribute
UsesSdkScanAnySdk(path, code_files) ==
    Len(code_files) < 1 /\ xml[path].sdk # SdkAbsent

\* whether parse_proj falls back on the disk scan
UsesSdkScan(path, code_files) ==
    LET project_type == IF xml[path].sdk = SdkMarker THEN "dotNET_SDK" ELSE "UNKNOWN"
    IN  Len(code_files) < 1 /\ project_type = "dotNET_SDK"

\* the Project parse_proj builds and returns beside its child list
FinishProject(frame) ==
    Project(frame.path,
            IF UsesSdkScan(frame.path, frame.code_files)
            THEN _get_sdk_files(PathParent(frame.path))
            ELSE frame.code_files,
            frame.child_projects)

\* a guard that never fires
AlreadyVisitedNever(child_path, seen) == FALSE

\* the cycle guard
AlreadyVisited(child_path, seen) == child_path \in seen

\* a top-level call that marks its own path
FreshVisitedWithSelf(proj_path) == {proj_path}

\* the visited set of a top-level call
FreshVisited(proj_path) == {}

\* child_proj.child_projects.extend(grandchildren): the list returned beside
\* the child is the child's own list
NestGrandchildren(child_proj, grandchildren) ==
    [child_proj EXCEPT !.child_projects = @ \o grandchildren]

_process_child_project(child_project) ==
    [child_project EXCEPT !.project_folder_path = PathParent(child_project.full_path)]

\* the Project _parse_project_file returns
_parse_project_file(proj_path, rootProj, childProj) ==
    Project(proj_path, rootProj.code_files,
            [i \in 1..Len(childProj) |-> _process_child_project(childProj[i])])

NewFrame(path) ==
    [path |-> path, stage |-> "enter", ri |-> 1,
     code_files |-> <<>>, child_projects |-> <<>>]

Top == stack[Len(stack)]

SetTop(frame) == [stack EXCEPT ![Len(stack)] = frame]

\* the exceptions the except clause of _parse_solution_file catches
IsOSError(e) == e \in {"OSError", "FileNotFoundError", "UnicodeDecodeError"}

\* the check on a matched line's path
IsSupported(sProj_path) ==
    Contains(ExtCsproj, Lower(sProj_path)) \/ Contains(ExtVbproj, sProj_path)

(***************************************************************************)
(* The entry point                                                         *)
(***************************************************************************)
\* ''.join(argv)
RECURSIVE Join(_)
Join(args) == IF args = <<>> THEN <<>> ELSE Head(args) \o Join(Tail(args))

\* Path(...).resolve(): the solution folder is the working directory
Resolve(p) == IF p = CurDir THEN <<>> ELSE p

\* Path.is_file()
IsFile(p) == p \in files \cup DOMAIN slnDisk

\* Path.is_dir()
IsDir(p) ==
    \/ p = <<>>
    \/ \E f \in files \cup DOMAIN slnDisk : IsBeneath(f, p)

\* the paths Path.rglob("*.sln") yields from start_path: the solution files
\* beneath a folder, none from a path that is no folder
RGlobSln(start_path) ==
    IF IsDir(start_path)
    THEN {f \in DOMAIN slnDisk :
             IsBeneath(f, start_path) /\ EndsWith(PathName(f), ExtSln)}
    ELSE {}

\* the orders in which a walk of the disk may meet the paths of S
Orders(S) == {o \in [1..Cardinality(S) -> S] : Range(o) = S}

\* _collect_sln_files: the paths it returns (as a set: the caller asks only
\* whether there are any), or the error of its last branch, whose
\* log_debug(..., file=sys.stderr) fails as the one of HandleError does
_collect_sln_files(target) ==
    IF IsFile(target) /\ Lower(PathSuffix(target)) = ExtSln
    THEN [error |-> "none", sln_files |-> {target}]
    ELSE IF IsDir(target)
    THEN [error |-> "none", sln_files |-> RGlobSln(target)]
    ELSE [error |-> IF logLevel = "DEBUG" THEN "TypeError" ELSE "none",
          sln_files |-> {}]

\* the Solution _parse_solution_file returns for sln_path
Solution(sln_path, projects) ==
    [full_path |-> PathParent(sln_path),
     solution_name |-> PathName(sln_path),
     projects |-> projects]

(***************************************************************************)
(* Actions                                                                 *)
(***************************************************************************)
\* with sln_path.open(encoding="utf-8") as fh
OpenSolution ==
    /\ pc = "open"
    /\ IF sln.openable
       THEN /\ pc' = "read"
            /\ lineNo' = 1
            /\ caught' = caught
       ELSE /\ pc' = "except"
            /\ lineNo' = lineNo
            /\ caught' = "OSError"
    /\ UNCHANGED <<inputs, entry, solution, raised, stack, visited, skipLog, scanned,
                   xmlParsed, forwardLog, raisedIn>>

\* one pass of  for line in fh, up to the call of _parse_project_file
ReadLine ==
    /\ pc = "read"
    /\ IF lineNo = sln.failAt
       THEN /\ pc' = "except"
            /\ caught' = "UnicodeDecodeError"
            /\ UNCHANGED <<lineNo, stack, visited, forwardLog>>
       ELSE IF lineNo > Len(sln.lines)
       THEN /\ pc' = "done"
            /\ UNCHANGED <<lineNo, caught, stack, visited, forwardLog>>
       ELSE IF ~sln.lines[lineNo].matches
       THEN /\ lineNo' = lineNo + 1
            /\ UNCHANGED <<pc, caught, stack, visited, forwardLog>>
       ELSE LET sProj_path == ReplaceBackslash(sln.lines[lineNo].proj_path)
                fwd == IsSupported(sProj_path)
            IN  /\ forwardLog' = Append(forwardLog,
                                   [path |-> sProj_path, forwarded |-> fwd])
                /\ caught' = caught
                /\ IF fwd
                   THEN /\ pc' = "resolve"
                        /\ stack' = <<NewFrame(sProj_path)>>
                        /\ visited' = FreshVisited(sProj_path)
                        /\ lineNo' = lineNo
                   ELSE /\ lineNo' = lineNo + 1
                        /\ UNCHANGED <<pc, stack, visited>>
    /\ UNCHANGED <<inputs, entry, solution, raised, skipLog, scanned, xmlParsed, raisedIn>>

\* parse_proj from its entry to the end of the Compile loop
EnterProject ==
    /\ pc = "resolve"
    /\ Top.stage = "enter"
    /\ LET out == EnterOutcome(Top.path)
       IN  /\ xmlParsed' = IF out.parsed THEN xmlParsed \cup {Top.path} ELSE xmlParsed
           /\ IF out.error = "none"
              THEN /\ stack' = SetTop([Top EXCEPT !.stage = "refs",
                                                  !.code_files = out.code_files])
                   /\ UNCHANGED <<pc, caught, raised, raisedIn>>
              ELSE /\ stack' = <<>>
                   /\ raisedIn' = [path |-> Top.path, depth |-> Len(stack)]
                   /\ IF IsOSError(out.error)
                      THEN /\ pc' = "except"
                           /\ caught' = out.error
                           /\ raised' = raised
                      ELSE /\ pc' = "done"
                           /\ raised' = out.error
                           /\ caught' = caught
    /\ UNCHANGED <<inputs, entry, lineNo, solution, visited, skipLog, scanned, forwardLog>>

\* a ProjectReference without Include, or one the cycle guard skips
SkipReference ==
    /\ pc = "resolve"
    /\ Top.stage = "refs"
    /\ Top.ri <= Len(xml[Top.path].refs)
    /\ LET child_path == xml[Top.path].refs[Top.ri]
       IN  /\ child_path = NoInclude \/ AlreadyVisited(child_path, visited)
           /\ skipLog' = IF child_path = NoInclude THEN skipLog
                         ELSE skipLog \cup
                              {[target |-> child_path,
                                at |-> Top.path,
                                onStack |-> {stack[i].path : i \in 1..Len(stack)}]}
    /\ stack' = SetTop([Top EXCEPT !.ri = @ + 1])
    /\ UNCHANGED <<inputs, entry, pc, lineNo, solution, caught, raised, visited, scanned,
                   xmlParsed, forwardLog, raisedIn>>

\* a ProjectReference that is resolved: visited.add and the recursive call.
\* MaxDepth caps the stack so that the state space stays finite whatever the
\* guard does; C1_Terminates shows that a run never comes near it.
DescendReference ==
    /\ pc = "resolve"
    /\ Top.stage = "refs"
    /\ Top.ri <= Len(xml[Top.path].refs)
    /\ Len(stack) < MaxDepth
    /\ LET child_path == xml[Top.path].refs[Top.ri]
       IN  /\ child_path # NoInclude
           /\ ~AlreadyVisited(child_path, visited)
           /\ visited' = visited \cup {child_path}
           /\ stack' = Append(stack, NewFrame(child_path))
    /\ UNCHANGED <<inputs, entry, pc, lineNo, solution, caught, raised, skipLog, scanned,
                   xmlParsed, forwardLog, raisedIn>>

\* the folders a return of the top frame walks
ScannedAfter(frame) ==
    IF UsesSdkScan(frame.path, frame.code_files)
    THEN scanned \cup {PathParent(frame.path)}
    ELSE scanned

\* parse_proj returns to the parse_proj that called it, which nests the
\* grandchildren and appends the child
ReturnToParent ==
    /\ pc = "resolve"
    /\ Len(stack) >= 2
    /\ Top.stage = "refs"
    /\ Top.ri > Len(xml[Top.path].refs)
    /\ LET child_proj == FinishProject(Top)
           grandchildren == Top.child_projects
           caller == stack[Len(stack) - 1]
       IN  stack' = [SubSeq(stack, 1, Len(stack) - 1) EXCEPT ![Len(stack) - 1] =
                        [caller EXCEPT
                           !.child_projects =
                               Append(@, NestGrandchildren(child_proj, grandchildren)),
                           !.ri = @ + 1]]
    /\ scanned' = ScannedAfter(Top)
    /\ UNCHANGED <<inputs, entry, pc, lineNo, solution, caught, raised, visited, skipLog,
                   xmlParsed, forwardLog, raisedIn>>

\* the top-level parse_proj returns to _parse_project_file, whose Project
\* _parse_solution_file appends
ReturnToSolution ==
    /\ pc = "resolve"
    /\ Len(stack) = 1
    /\ Top.stage = "refs"
    /\ Top.ri > Len(xml[Top.path].refs)
    /\ solution' = Append(solution,
                     _parse_project_file(Top.path, FinishProject(Top),
                                         Top.child_projects))
    /\ scanned' = ScannedAfter(Top)
    /\ stack' = <<>>
    /\ pc' = "read"
    /\ lineNo' = lineNo + 1
    /\ UNCHANGED <<inputs, entry, caught, raised, visited, skipLog, xmlParsed,
                   forwardLog, raisedIn>>

\* except (OSError, UnicodeDecodeError): log_debug(..., file=sys.stderr), then
\* return solution.  Logger.debug hands its keyword arguments to Logger._log
\* only when DEBUG is enabled, and _log takes no `file`
HandleError ==
    /\ pc = "except"
    /\ pc' = "done"
    /\ raised' = IF logLevel = "DEBUG" THEN "TypeError" ELSE raised
    /\ UNCHANGED <<inputs, entry, lineNo, solution, caught, stack, visited, skipLog,
                   scanned, xmlParsed, forwardLog, raisedIn>>

\* parse_from_argv up to the loop of discover_solution_set
ParseFromArgv ==
    /\ epc = "argv"
    /\ IF argv = <<>>
       THEN /\ returned' = "1"
            /\ epc' = "exit"
            /\ UNCHANGED <<raised, pending, solution_set>>
       ELSE LET target == Resolve(Join(argv))
                found == _collect_sln_files(target)
            IN  IF found.error # "none"
                THEN /\ raised' = found.error
                     /\ epc' = "exit"
                     /\ UNCHANGED <<returned, pending, solution_set>>
                ELSE IF found.sln_files = {}
                THEN /\ returned' = "0"
                     /\ epc' = "exit"
                     /\ UNCHANGED <<raised, pending, solution_set>>
                ELSE /\ epc' = "discover"
                     /\ solution_set' = [start_path |-> target, solutions |-> <<>>]
                     /\ pending' \in Orders(RGlobSln(target))
                     /\ UNCHANGED <<raised, returned>>
    /\ UNCHANGED <<inputs, argv, slnDisk, pc, lineNo, solution, caught, stack,
                   visited, skipLog, scanned, xmlParsed, forwardLog, raisedIn>>

\* for sln_file in start_path.rglob("*.sln"): the call of
\* _parse_solution_file on the next solution file
DiscoverNext ==
    /\ epc = "discover"
    /\ pending # <<>>
    /\ epc' = "parsing"
    /\ sln' = slnDisk[Head(pending)]
    /\ pc' = "open"
    /\ lineNo' = 0
    /\ solution' = <<>>
    /\ caught' = "none"
    /\ raised' = "none"
    /\ stack' = <<>>
    /\ visited' = {}
    /\ skipLog' = {}
    /\ scanned' = {}
    /\ xmlParsed' = {}
    /\ forwardLog' = <<>>
    /\ raisedIn' = NoFrame
    /\ UNCHANGED <<files, xml, logLevel, argv, slnDisk, pending, solution_set,
                   returned>>

\* _parse_solution_file is over: solution_set.solutions.append(solution), or
\* its exception leaves discover_solution_set and parse_from_argv
AppendSolution ==
    /\ epc = "parsing"
    /\ pc = "done"
    /\ pc' = "idle"
    /\ IF raised = "none"
       THEN /\ solution_set' =
                  [solution_set EXCEPT
                      !.solutions = Append(@, Solution(Head(pending), solution))]
            /\ pending' = Tail(pending)
            /\ epc' = "discover"
       ELSE /\ epc' = "exit"
            /\ UNCHANGED <<pending, solution_set>>
    /\ UNCHANGED <<inputs, argv, slnDisk, returned, lineNo, solution, caught,
                   raised, stack, visited, skipLog, scanned, xmlParsed,
                   forwardLog, raisedIn>>

\* the loop is over: print(solution_set_to_json(solution_set)); return 0
PrintSolutionSet ==
    /\ epc = "discover"
    /\ pending = <<>>
    /\ returned' = "0"
    /\ epc' = "exit"
    /\ UNCHANGED <<inputs, argv, slnDisk, pending, solution_set, pc, lineNo,
                   solution, caught, raised, stack, visited, skipLog, scanned,
                   xmlParsed, forwardLog, raisedIn>>

Next ==
    \/ OpenSolution
    \/ ReadLine
    \/ EnterProject
    \/ SkipReference
    \/ DescendReference
    \/ ReturnToParent
    \/ ReturnToSolution
    \/ HandleError

Spec == InitGraph /\ [][Next]_vars

\* the code runs to completion: no step waits on anything
FairSpec == InitGraph /\ [][Next]_vars /\ WF_vars(Next)

SpecFiles == InitFiles /\ [][Next]_vars

SpecSln == InitSln /\ [][Next]_vars

\* the disk and the arguments parse_from_argv starts with
InitEntry ==
    /\ argv \in ArgvChoices
    /\ \E onDisk \in SUBSET SlnPaths : slnDisk \in [onDisk -> EntrySlnFiles]
    /\ logLevel \in {"DEBUG", "INFO"}
    /\ files = {PA, PB, PSub}
    /\ xml = (PA :> Doc(SdkAbsent, <<>>, <<PB, PB>>)) @@
             [p \in {PB, PSub} |-> EmptyDoc]
    /\ sln = NoSln
    /\ epc = "argv"
    /\ pending = <<>>
    /\ solution_set = NoSolutionSet
    /\ returned = "none"
    /\ pc = "idle"
    /\ lineNo = 0
    /\ solution = <<>>
    /\ caught = "none"
    /\ raised = "none"
    /\ stack = <<>>
    /\ visited = {}
    /\ skipLog = {}
    /\ scanned = {}
    /\ xmlParsed = {}
    /\ forwardLog = <<>>
    /\ raisedIn = NoFrame

NextEntry ==
    \/ Next
    \/ ParseFromArgv
    \/ DiscoverNext
    \/ AppendSolution
    \/ PrintSolutionSet

SpecEntry == InitEntry /\ [][NextEntry]_vars

(***************************************************************************)
(* Properties                                                              *)
(***************************************************************************)
\* the Projects strictly below a Project
RECURSIVE Descendants(_)
Descendants(P) ==
    UNION {{P.child_projects[i]} \cup Descendants(P.child_projects[i]) :
             i \in DOMAIN P.child_projects}

\* every Project of the returned trees
Returned == UNION {{P} \cup Descendants(P) : P \in Range(solution)}

\* the run is over and _parse_solution_file returned normally, having caught
\* nothing
CleanReturn == pc = "done" /\ raised = "none" /\ caught = "none"

\* C1: over every reference graph (cycles, self-references included) the
\* resolution ends, and the call stack never holds more frames than there
\* are project paths plus the top-level one.
C1_Terminates ==
    /\ [](Len(stack) <= Cardinality(DOMAIN xml) + 1)
    /\ <>(pc = "done")

\* a cyclic graph was resolved to the end: the guard skipped a reference to
\* a project still on the stack
C1_Witness ==
    /\ CleanReturn
    /\ solution # <<>>
    /\ \E k \in skipLog : k.target \in k.onStack

\* A and Y reference each other and nothing else, and both exist
TwoCycle(Y) ==
    /\ {PA, Y} \subseteq files
    /\ xml[PA].refs = <<Y>>
    /\ xml[Y].refs = <<PA>>

C3_NeverContainsItself ==
    \A P \in Returned : \A D \in Descendants(P) : D.full_path # P.full_path

\* C4: a ProjectReference is skipped by the guard only when its target is on
\* the resolution stack.
C4_SkippedOnlyOnStack ==
    \A k \in skipLog : k.target \in k.onStack

\* the CodeFiles the Compile elements of a project file name: those with an
\* Include that is a file on disk with a C# or VB extension, in document order
ExplicitCodeFiles(path) ==
    LET Named(inc) == /\ inc # NoInclude
                      /\ inc \in files
                      /\ Lower(SplitExt(PathName(inc))) \in {ExtCs, ExtVb}
        named == SelectSeq(xml[path].compile, Named)
    IN  [i \in 1..Len(named) |-> CodeFile(named[i])]

\* the .cs and .vb files on disk beneath a folder
SourcesBeneath(dir) ==
    {f \in files : IsBeneath(f, dir) /\ (EndsWith(f, ExtCs) \/ EndsWith(f, ExtVb))}

\* the project is SDK-style and its Compile elements name no CodeFile
FallsBack(path) == ExplicitCodeFiles(path) = <<>> /\ xml[path].sdk = SdkMarker

\* C5: the CodeFiles of a returned Project are the .cs and .vb files beneath
\* its folder, each once, exactly when its Compile elements gave none and its
\* Sdk attribute is Microsoft.NET.Sdk; otherwise they are the CodeFiles of its
\* Compile elements; and a folder is walked only for such a project.
C5_SdkFallback ==
    /\ \A P \in Returned :
          IF FallsBack(P.full_path)
          THEN /\ {cf.full_path : cf \in Range(P.code_files)}
                     = SourcesBeneath(P.project_folder_path)
               /\ Len(P.code_files)
                     = Cardinality(SourcesBeneath(P.project_folder_path))
               /\ \A cf \in Range(P.code_files) : cf = CodeFile(cf.full_path)
               /\ P.project_folder_path \in scanned
          ELSE P.code_files = ExplicitCodeFiles(P.full_path)
    /\ \A dir \in scanned :
          \E path \in xmlParsed : PathParent(path) = dir /\ FallsBack(path)

\* an SDK-style project without Compile elements got both sources of its
\* folder from the disk
C5_Witness ==
    /\ CleanReturn
    /\ xml[PApp].compile = <<>>
    /\ xml[PApp].sdk = SdkMarker
    /\ Len(solution) = 1
    /\ {cf.file_name : cf \in Range(solution[1].code_files)}
          = {PathName(FMain), PathName(FUtil)}
    /\ FOut \in files

\* a Compile element of the project file names a path missing from disk
HasMissingCompile(path) ==
    \E i \in DOMAIN xml[path].compile :
        xml[path].compile[i] # NoInclude /\ xml[path].compile[i] \notin files

\* a Compile element of the project file names a project file on disk
HasProjectCompile(path) ==
    \E i \in DOMAIN xml[path].compile :
        /\ xml[path].compile[i] \in files
        /\ _detect_language(PathName(xml[path].compile[i]))
              \in {"CSPROJECT", "VBPROJECT"}

\* C6: a Compile element whose path is missing from disk does not make
\* parse_proj fail (a failure has another cause: the project file itself
\* missing or malformed, or a Compile element naming a project file), it adds
\* no CodeFile, and the other Compile elements and the ProjectReferences of
\* the project are still processed.
C6_MissingCompileSkipped ==
    /\ \A i \in DOMAIN stack :
          (stack[i].stage = "refs" /\ HasMissingCompile(stack[i].path)) =>
              stack[i].code_files = ExplicitCodeFiles(stack[i].path)
    /\ (raisedIn # NoFrame /\ raisedIn.path \in files) =>
          \/ ~xml[raisedIn.path].wellformed
          \/ HasProjectCompile(raisedIn.path)
    /\ \A P \in Range(solution) :
          HasMissingCompile(P.full_path) =>
              /\ \A cf \in Range(P.code_files) : cf.full_path \in files
              /\ \A cf \in Range(ExplicitCodeFiles(P.full_path)) :
                    FallsBack(P.full_path) \/ cf \in Range(P.code_files)
              /\ {c.full_path : c \in Range(P.child_projects)}
                    = Range(xml[P.full_path].refs) \ {NoInclude}

\* a project with a missing Compile path was resolved, with the CodeFile of
\* its other Compile element and the child of its ProjectReference
C6_Witness ==
    /\ CleanReturn
    /\ HasMissingCompile(PApp)
    /\ Len(solution) = 1
    /\ Len(solution[1].code_files) = 1
    /\ Len(solution[1].child_projects) = 1

\* C7: a ProjectReference whose target is missing from disk is skipped: the
\* parse_proj called for it raises nothing that ends the resolution of the
\* project that references it.
C7_MissingReferenceSkipped ==
    raisedIn.depth >= 2 => raisedIn.path \in files

\* C8: parse_proj on a path that is not a file raises FileNotFoundError
\* before any XML is parsed, returns no Project (the call stack unwinds, no
\* Project is added anywhere) and leaves the visited set as it was.
C8_NotFound ==
    [][(pc = "resolve" /\ Top.stage = "enter" /\ Top.path \notin files) =>
          /\ caught' = "FileNotFoundError"
          /\ raisedIn' = [path |-> Top.path, depth |-> Len(stack)]
          /\ xmlParsed' = xmlParsed
          /\ visited' = visited
          /\ solution' = solution
          /\ stack' = <<>>]_vars

\* parse_proj raised for a missing project file that another project
\* references
C8_Witness ==
    /\ caught = "FileNotFoundError"
    /\ raisedIn.depth >= 2
    /\ raisedIn.path \notin files

\* C9: a matched solution line is forwarded to project resolution exactly
\* when its path ends in .csproj or .vbproj, compared without regard to case.
C9_ForwardedIffProjectExtension ==
    \A i \in DOMAIN forwardLog :
        forwardLog[i].forwarded <=>
            \/ EndsWith(Lower(forwardLog[i].path), ExtCsproj)
            \/ EndsWith(Lower(forwardLog[i].path), ExtVbproj)

\* C10: when the solution file cannot be opened or decoded, at whatever
\* line, _parse_solution_file raises nothing and returns a Solution without
\* projects.
C10_UnreadableGivesEmpty ==
    (pc = "done" /\ caught \in {"OSError", "UnicodeDecodeError"}) =>
        (raised = "none" /\ solution = <<>>)

\* the paths of the entries _parse_solution_file handed to project
\* resolution, in the order of their lines
ForwardedPaths ==
    LET IsForwarded(e) == e.forwarded
        fwd == SelectSeq(forwardLog, IsForwarded)
    IN  [i \in 1..Len(fwd) |-> fwd[i].path]

\* the full paths of the Projects of the Solution, in order
SolutionPaths == [i \in 1..Len(solution) |-> solution[i].full_path]

\* C11: the Solution that _parse_solution_file returns holds one Project for
\* each entry that was forwarded to project resolution, in the order of the
\* lines of the solution file: none is dropped and none is reordered.
C11_ForwardedInOrder ==
    (pc = "done" /\ raised = "none") => SolutionPaths = ForwardedPaths

\* the Compile elements of a project file that name a project file on disk
ProjectCompileItems(path) ==
    {xml[path].compile[i] : i \in
        {j \in DOMAIN xml[path].compile :
            /\ xml[path].compile[j] \in files
            /\ _detect_language(PathName(xml[path].compile[j]))
                  \in {"CSPROJECT", "VBPROJECT"}}}

\* C13: a Compile element whose path is on disk and classifies as CSProject
\* or VBProject is taken as a nested project: the parse_proj of the project
\* file that holds it does not fail on it, and the Project returned for that
\* file has a child Project for the path of the element.
C13_CompileProjectNested ==
    /\ (raisedIn # NoFrame /\ raisedIn.path \in files
          /\ xml[raisedIn.path].wellformed) =>
          ProjectCompileItems(raisedIn.path) = {}
    /\ \A P \in Returned :
          \A inc \in ProjectCompileItems(P.full_path) :
             \E i \in DOMAIN P.child_projects :
                P.child_projects[i].full_path = inc

\* how many ProjectReference elements of a project file name the path q
ReferenceCount(path, q) ==
    Cardinality({i \in DOMAIN xml[path].refs : xml[path].refs[i] = q})

\* how many entries of the child collection of P are Projects for the path q
ChildCount(P, q) ==
    Cardinality({i \in DOMAIN P.child_projects :
                    P.child_projects[i].full_path = q})

\* C14: in every Project of a returned tree, at every depth, the child
\* collection holds a project at most as often as the ProjectReference
\* elements of the project file name it: nesting the grandchildren under a
\* child adds no second entry for a referenced project.
C14_OneChildPerReference ==
    \A P \in Returned :
        \A q \in GraphProjects : ChildCount(P, q) <= ReferenceCount(P.full_path, q)

\* the path parse_from_argv was given is a solution file on disk
GivenSlnFile ==
    /\ argv # <<>>
    /\ Resolve(Join(argv)) \in DOMAIN slnDisk
    /\ Lower(PathSuffix(Resolve(Join(argv)))) = ExtSln

\* C12: when parse_from_argv is given the path of one solution file on disk
\* and returns 0, the SolutionSet it printed contains the Solution of that
\* file.
C12_SingleFileParsed ==
    (epc = "exit" /\ returned = "0" /\ GivenSlnFile) =>
        \E i \in DOMAIN solution_set.solutions :
            /\ solution_set.solutions[i].solution_name
                  = PathName(Resolve(Join(argv)))
            /\ solution_set.solutions[i].full_path
                  = PathParent(Resolve(Join(argv)))

=============================================================================
